---- MODULE Spec2Model ----
(***************************************************************************)
(* Model of the F1 analytics core (src/f1_logic.py) and of the pages of    *)
(* src/app.py that call it:                                                *)
(*   - get_similar_drivers : the similarity ranker over DRIVER_DATA        *)
(*   - get_race_story_stats: the event reconstruction over the CSV store   *)
(*   - get_drivers_in_race : the driver list of a race                     *)
(*   - DRIVER_LIST         : the targets the page offers for a scan        *)
(*                                                                         *)
(* Numbers are exact rationals <<n, d>> with d > 0; <<0, 0>> is NaN/null.  *)
(* A cosine similarity s is kept as sign(s) * s^2, which is rational and   *)
(* has the same order, the same equalities and the same position relative  *)
(* to 0 and 1 as s itself.  IEEE rounding is not modelled.                 *)
(***************************************************************************)
EXTENDS Integers, Sequences, FiniteSets, TLC

VARIABLES
    driver_data,    \* DRIVER_DATA: the statistical population (sequence of rows)
    rank_call,      \* last call of get_similar_drivers: its argument and outcome
    store,          \* the data/ folder: which files exist and the tables they hold
    story_call,     \* last call of get_race_story_stats: its arguments and outcome
    sessions,       \* concurrent page sessions: where each is in its invocation
    drivers_call    \* last call of get_drivers_in_race: its argument and outcome

vars == <<driver_data, rank_call, store, story_call, sessions, drivers_call>>

-----------------------------------------------------------------------------
(* Bounds *)

MaxPop == 5

MaxResults == 3

NSessions == 2

MaxCalls == 2

MaxListPop == 2

MaxWords == 3

-----------------------------------------------------------------------------
(* Exact rational arithmetic *)

RECURSIVE GCD(_, _)
GCD(a, b) == IF b = 0 THEN a ELSE GCD(b, a % b)

Abs(a) == IF a < 0 THEN -a ELSE a

NaN == <<0, 0>>

IsNaN(x) == x[2] = 0

Rat(n, d) ==
    LET g == GCD(Abs(n), Abs(d))
        s == IF d < 0 THEN -1 ELSE 1
    IN  <<s * (n \div g), s * (d \div g)>>

Whole(n) == <<n, 1>>

\* Arithmetic propagates NaN, as numpy does.  Common factors are cancelled
\* before multiplying, which keeps the intermediate integers small.
RAdd(x, y) ==
    IF IsNaN(x) \/ IsNaN(y) THEN NaN
    ELSE LET g == GCD(x[2], y[2])
         IN  Rat(x[1] * (y[2] \div g) + y[1] * (x[2] \div g), (x[2] \div g) * y[2])

RNeg(x) == IF IsNaN(x) THEN NaN ELSE <<-x[1], x[2]>>

RSub(x, y) == RAdd(x, RNeg(y))

RMul(x, y) ==
    IF IsNaN(x) \/ IsNaN(y) THEN NaN
    ELSE LET g1 == GCD(Abs(x[1]), y[2])
             g2 == GCD(Abs(y[1]), x[2])
         IN  <<(x[1] \div g1) * (y[1] \div g2), (x[2] \div g2) * (y[2] \div g1)>>

\* y is never zero where this is used
RDiv(x, y) ==
    IF IsNaN(x) \/ IsNaN(y) THEN NaN
    ELSE RMul(x, IF y[1] < 0 THEN <<-y[2], -y[1]>> ELSE <<y[2], y[1]>>)

\* x < y for non-NaN rationals, by continued fractions (no cross products)
RECURSIVE RLess(_, _)
RLess(x, y) ==
    LET qx == IF x[1] >= 0 THEN x[1] \div x[2] ELSE -((-x[1] + x[2] - 1) \div x[2])
        qy == IF y[1] >= 0 THEN y[1] \div y[2] ELSE -((-y[1] + y[2] - 1) \div y[2])
        rx == x[1] - qx * x[2]
        ry == y[1] - qy * y[2]
    IN  IF qx # qy THEN qx < qy
        ELSE IF ry = 0 THEN FALSE
        ELSE IF rx = 0 THEN TRUE
        ELSE RLess(<<y[2], ry>>, <<x[2], rx>>)

RLeq(x, y) == ~RLess(y, x)

-----------------------------------------------------------------------------
(* The statistical population *)

Row(s, af, fs, dt, r) ==
    [surname |-> s, avg_finish |-> af, finish_std |-> fs,
     delta_vs_team |-> dt, races |-> r]

\* Rows a population is drawn from: a front runner "A", a midfielder "M"
\* half way between the best and the worst in every statistic, a backmarker
\* who shares the surname "A" with the front runner, and "N", a midfielder
\* without finish_std.
RowPool ==
    { Row("A", Whole(2),   Whole(1),  Whole(-1), Whole(50)),
      Row("M", Rat(17, 2), Rat(7, 2), Whole(1),  Whole(30)),
      Row("A", Whole(15),  Whole(6),  Whole(3),  Whole(10)),
      Row("N", Rat(17, 2), NaN,       Whole(1),  Whole(30)) }

\* The population of the end-to-end scenario
Scenario ==
    << Row("A", Whole(2),  Whole(1),  Whole(-1),  Whole(50)),
       Row("B", Whole(3),  Rat(3, 2), Rat(-1, 2), Whole(40)),
       Row("C", Whole(15), Whole(6),  Whole(3),   Whole(10)) >>

\* "B" and "C" are surnames no row of RowPool carries
Targets == {"A", "B", "C", "M", "N"}

SeqsUpTo(S, n) == UNION { [1..k -> S] : k \in 0..n }

Populations == SeqsUpTo(RowPool, MaxPop) \cup {Scenario}

-----------------------------------------------------------------------------
(* get_similar_drivers *)

features == 1..4

\* <<Op(1), ..., Op(n)>>
RECURSIVE MapIdx(_, _)
MapIdx(Op(_), n) == IF n = 0 THEN <<>> ELSE Append(MapIdx(Op, n - 1), Op(n))

\* df['score_pace'], df['score_consistency'], df['score_skill'], df['score_exp']
score_pace(row) == RSub(Whole(22), row.avg_finish)

score_consistency(row) == RSub(Whole(15), row.finish_std)

\* Mutant of score_skill: delta_vs_team without the change of sign
skill_unflipped(row) == row.delta_vs_team

score_skill(row) == RMul(row.delta_vs_team, Whole(-1))

score_exp(row) == row.races

RawFeatures(df) ==
    MapIdx(LAMBDA i : <<score_pace(df[i]), score_consistency(df[i]),
                        score_skill(df[i]), score_exp(df[i])>>, Len(df))

RECURSIVE RSum(_)
RSum(xs) == IF xs = <<>> THEN Whole(0) ELSE RAdd(xs[1], RSum(Tail(xs)))

NotNaN(x) == ~IsNaN(x)

\* Mutant of Mean: the sum of the non-null entries over the length of the column
MeanOverAll(col) ==
    LET present == SelectSeq(col, NotNaN)
    IN  IF present = <<>> THEN NaN
        ELSE RDiv(RSum(present), Whole(Len(col)))

\* Series.mean(): the mean of the non-null entries, NaN when there is none
Mean(col) ==
    LET present == SelectSeq(col, NotNaN)
    IN  IF present = <<>> THEN NaN
        ELSE RDiv(RSum(present), Whole(Len(present)))

Column(m, f) == MapIdx(LAMBDA i : m[i][f], Len(m))

\* df[features].fillna(df[features].mean())
fillna(m) ==
    LET means == MapIdx(LAMBDA f : Mean(Column(m, f)), 4)
    IN  MapIdx(LAMBDA i :
                   MapIdx(LAMBDA f : IF IsNaN(m[i][f]) THEN means[f] ELSE m[i][f], 4),
               Len(m))

RECURSIVE RMin(_)
RMin(xs) ==
    IF Len(xs) = 1 THEN xs[1]
    ELSE LET r == RMin(Tail(xs)) IN IF RLess(r, xs[1]) THEN r ELSE xs[1]

RECURSIVE RMax(_)
RMax(xs) ==
    IF Len(xs) = 1 THEN xs[1]
    ELSE LET r == RMax(Tail(xs)) IN IF RLess(xs[1], r) THEN r ELSE xs[1]

\* Mutant of ScaleColumn: a zero data_range is divided by (0 / 0 is NaN)
ScaleColumnUnguarded(col) ==
    LET present == SelectSeq(col, NotNaN)
    IN  IF present = <<>> THEN col
        ELSE LET data_min   == RMin(present)
                 data_range == RSub(RMax(present), data_min)
             IN  IF data_range = Whole(0) THEN MapIdx(LAMBDA i : NaN, Len(col))
                 ELSE MapIdx(LAMBDA i : RDiv(RSub(col[i], data_min), data_range), Len(col))

\* Mutant of ScaleColumn: every entry divided by the column maximum
ScaleColumnByMax(col) ==
    LET present == SelectSeq(col, NotNaN)
    IN  IF present = <<>> THEN col
        ELSE MapIdx(LAMBDA i : RDiv(col[i], RMax(present)), Len(col))

\* MinMaxScaler().fit_transform on one column: X * scale_ + min_ with
\* scale_ = 1 / data_range (a zero range counts as 1), min_ = 0 - data_min * scale_.
\* NaN entries are ignored by the fit and kept by the transform.
ScaleColumn(col) ==
    LET present == SelectSeq(col, NotNaN)
    IN  IF present = <<>> THEN col
        ELSE LET data_min   == RMin(present)
                 data_range == RSub(RMax(present), data_min)
                 scale_     == RDiv(Whole(1),
                                    IF data_range = Whole(0) THEN Whole(1) ELSE data_range)
                 min_       == RSub(Whole(0), RMul(data_min, scale_))
             IN  MapIdx(LAMBDA i : RAdd(RMul(col[i], scale_), min_), Len(col))

fit_transform(m) ==
    LET cols == MapIdx(LAMBDA f : ScaleColumn(Column(m, f)), 4)
    IN  MapIdx(LAMBDA i : MapIdx(LAMBDA f : cols[f][i], 4), Len(m))

Dot(u, v) == RSum(MapIdx(LAMBDA f : RMul(u[f], v[f]), 4))

\* Mutant of cosine_similarity: the dot product without normalize()
DotSimilarity(u, v) ==
    LET uv == Dot(u, v)
        sq == RMul(uv, uv)
    IN  IF uv[1] < 0 THEN RNeg(sq) ELSE sq

\* cosine_similarity of two rows as sign(s) * s^2; a zero vector is left
\* as it is by normalize(), so its similarity to anything is 0.
cosine_similarity(u, v) ==
    LET uu == Dot(u, u)
        vv == Dot(v, v)
        uv == Dot(u, v)
    IN  IF uu = Whole(0) \/ vv = Whole(0) THEN Whole(0)
        ELSE LET sq == RMul(RDiv(uv, uu), RDiv(uv, vv))
             IN  IF uv[1] < 0 THEN RNeg(sq) ELSE sq

HasNaN(m) == \E i \in 1..Len(m) : \E f \in features : IsNaN(m[i][f])

\* Mutant of InsertDesc: an entry goes in front of the entries of equal score
RECURSIVE InsertBeforeTies(_, _)
InsertBeforeTies(sorted, e) ==
    IF sorted = <<>> THEN <<e>>
    ELSE IF RLeq(sorted[1].score, e.score) THEN <<e>> \o sorted
    ELSE <<sorted[1]>> \o InsertBeforeTies(Tail(sorted), e)

\* Mutant of InsertDesc: ascending order (reverse=True left out)
RECURSIVE InsertAsc(_, _)
InsertAsc(sorted, e) ==
    IF sorted = <<>> THEN <<e>>
    ELSE IF RLess(e.score, sorted[1].score) THEN <<e>> \o sorted
    ELSE <<sorted[1]>> \o InsertAsc(Tail(sorted), e)

\* sorted(..., key=lambda x: x[1], reverse=True): descending and stable,
\* entries of equal score keep the order they had.
RECURSIVE InsertDesc(_, _)
InsertDesc(sorted, e) ==
    IF sorted = <<>> THEN <<e>>
    ELSE IF RLess(sorted[1].score, e.score) THEN <<e>> \o sorted
    ELSE <<sorted[1]>> \o InsertDesc(Tail(sorted), e)

\* Mutant of SortedDesc: the scores in population order, not sorted
Unsorted(xs) == xs

RECURSIVE SortedDesc(_)
SortedDesc(xs) ==
    IF xs = <<>> THEN <<>>
    ELSE InsertDesc(SortedDesc(SubSeq(xs, 1, Len(xs) - 1)), xs[Len(xs)])

\* Mutant of TakeTop: the loop without "if idx == target_idx: continue"
RECURSIVE TakeTopNoSkip(_, _, _, _)
TakeTopNoSkip(scores_with_indices, target_idx, df, top_matches) ==
    IF scores_with_indices = <<>> THEN top_matches
    ELSE LET e == scores_with_indices[1]
             match_driver ==
                 [row |-> df[e.idx], idx |-> e.idx, similarity_score |-> e.score]
             grown == Append(top_matches, match_driver)
         IN  IF Len(grown) >= 3 THEN grown
             ELSE TakeTopNoSkip(Tail(scores_with_indices), target_idx, df, grown)

\* the loop over scores_with_indices that fills top_matches
RECURSIVE TakeTop(_, _, _, _)
TakeTop(scores_with_indices, target_idx, df, top_matches) ==
    IF scores_with_indices = <<>> THEN top_matches
    ELSE LET e == scores_with_indices[1]
         IN  IF e.idx = target_idx
             THEN TakeTop(Tail(scores_with_indices), target_idx, df, top_matches)
             ELSE LET match_driver ==
                          [row |-> df[e.idx], idx |-> e.idx, similarity_score |-> e.score]
                      grown == Append(top_matches, match_driver)
                  IN  IF Len(grown) >= 3 THEN grown
                      ELSE TakeTop(Tail(scores_with_indices), target_idx, df, grown)

\* Mutant of FirstIndex: the last row with the surname
LastIndex(df, target_driver) ==
    CHOOSE i \in 1..Len(df) :
        /\ df[i].surname = target_driver
        /\ \A j \in (i + 1)..Len(df) : df[j].surname # target_driver

\* df[df['surname'] == target_driver].index[0]
FirstIndex(df, target_driver) ==
    CHOOSE i \in 1..Len(df) :
        /\ df[i].surname = target_driver
        /\ \A j \in 1..(i - 1) : df[j].surname # target_driver

Returned(ms) == [raised |-> "", top_matches |-> ms]

Raised(e) == [raised |-> e, top_matches |-> <<>>]

\* cosine_similarity([vectors[target_idx]], vectors)[0], paired with the
\* indices as list(enumerate(sim_scores)) does
sim_scores(vectors, target_idx) ==
    MapIdx(LAMBDA i : [idx |-> i,
                       score |-> cosine_similarity(vectors[target_idx], vectors[i])],
           Len(vectors))

\* lines 44-68: the target is in the population
RankPresent(target_driver, df) ==
    LET vectors    == fit_transform(fillna(RawFeatures(df)))
        target_idx == FirstIndex(df, target_driver)
    IN  IF HasNaN(vectors) THEN Raised("ValueError")
        ELSE LET scores_with_indices == SortedDesc(sim_scores(vectors, target_idx))
             IN  Returned(TakeTop(scores_with_indices, target_idx, df, <<>>))

InPopulation(target_driver, data) ==
    \E i \in 1..Len(data) : data[i].surname = target_driver

\* Mutant of get_similar_drivers: without the membership test of line 42,
\* .index[0] of an empty index is an IndexError
get_similar_drivers_unchecked(target_driver, data) ==
    IF data = <<>> THEN Raised("KeyError")
    ELSE IF ~InPopulation(target_driver, data) THEN Raised("IndexError")
    ELSE RankPresent(target_driver, data)

\* Position i of a population is DataFrame index i - 1.  An empty list makes
\* a DataFrame without columns, where df['surname'] is a KeyError.
get_similar_drivers(target_driver, data) ==
    IF data = <<>> THEN Raised("KeyError")
    ELSE IF ~InPopulation(target_driver, data) THEN Returned(<<>>)
    ELSE RankPresent(target_driver, data)

-----------------------------------------------------------------------------
(* f1_chat.get_similar_drivers, the ranker of the chat module *)

\* f1_chat.py lines 32-41: score_pace, score_consistency, score_skill, score_exp
chat_features(df) ==
    MapIdx(LAMBDA i : <<RSub(Whole(22), df[i].avg_finish),
                        RSub(Whole(15), df[i].finish_std),
                        RMul(df[i].delta_vs_team, Whole(-1)),
                        df[i].races>>, Len(df))

\* Mutant of chat_get_similar_drivers: line 47, the fillna, left out
chat_without_fillna(target_driver, data) ==
    IF data = <<>> THEN Raised("KeyError")
    ELSE IF \A i \in 1..Len(data) : data[i].surname # target_driver THEN Returned(<<>>)
    ELSE LET vectors    == fit_transform(chat_features(data))
             target_idx == FirstIndex(data, target_driver)
         IN  IF HasNaN(vectors) THEN Raised("ValueError")
             ELSE LET scores_with_indices == sim_scores(vectors, target_idx)
                      ranked == SortedDesc(scores_with_indices)
                  IN  Returned(TakeTop(ranked, target_idx, data, <<>>))

\* f1_chat.py lines 13-80
chat_get_similar_drivers(target_driver, data) ==
    IF data = <<>> THEN Raised("KeyError")
    ELSE IF \A i \in 1..Len(data) : data[i].surname # target_driver THEN Returned(<<>>)
    ELSE LET vectors    == fit_transform(fillna(chat_features(data)))
             target_idx == FirstIndex(data, target_driver)
         IN  IF HasNaN(vectors) THEN Raised("ValueError")
             ELSE LET scores_with_indices == sim_scores(vectors, target_idx)
                      ranked == SortedDesc(scores_with_indices)
                  IN  Returned(TakeTop(ranked, target_idx, data, <<>>))

-----------------------------------------------------------------------------
(* The relational store: the data/ folder and its four CSV files *)

Files == {"results", "races", "drivers", "constructors"}

Result(r, d, c, g, p, st) ==
    [raceId |-> r, driverId |-> d, constructorId |-> c,
     grid |-> g, positionOrder |-> p, statusId |-> st]

\* Result rows a results.csv is drawn from: two Schumachers in race 1, one of
\* them starting from the pit lane with a status code the table does not
\* know; a row whose constructor is not in constructors.csv; a row of a race
\* that is not in races.csv; a row whose driver is not in drivers.csv; a
\* second pit-lane start, with a known status code.
ResultPool ==
    { Result(1, 1, 1, 1, 2, 1),
      Result(1, 2, 2, 0, 5, 999),
      Result(2, 1, 1, 3, 1, 1),
      Result(1, 3, 7, 4, 4, 5),
      Result(3, 2, 2, 10, 12, 11),
      Result(2, 9, 1, 5, 6, 3),
      Result(2, 3, 2, 0, 20, 4) }

\* results.csv holds a result row once
ResultTables ==
    { t \in SeqsUpTo(ResultPool, MaxResults) :
        \A i, j \in 1..Len(t) : i # j => t[i] # t[j] }

DriversTable ==
    << [driverId |-> 1, forename |-> "Michael", surname |-> "Schumacher"],
       [driverId |-> 2, forename |-> "Mick",    surname |-> "Schumacher"],
       [driverId |-> 3, forename |-> "Max",     surname |-> "Verstappen"] >>

ConstructorsTable ==
    << [constructorId |-> 1, name |-> "Ferrari"],
       [constructorId |-> 2, name |-> "Haas F1 Team"] >>

RacesTable ==
    << [raceId |-> 1, year |-> 2004, name |-> "Monaco Grand Prix", date |-> "2004-05-23"],
       [raceId |-> 2, year |-> 2021, name |-> "Dutch Grand Prix",  date |-> "2021-09-05"] >>

RaceIds == {1, 2, 3}

FullNames == {"Michael Schumacher", "Mick Schumacher", "Max Verstappen", "Ayrton Senna"}

\* A file that does not exist holds no table.
Stores ==
    { [dir |-> FALSE, files |-> {}, results |-> <<>>, drivers |-> <<>>,
       constructors |-> <<>>, races |-> <<>>] }
    \cup
    { [dir |-> TRUE, files |-> fs,
       results      |-> rs,
       drivers      |-> IF "drivers" \in fs THEN DriversTable ELSE <<>>,
       constructors |-> IF "constructors" \in fs THEN ConstructorsTable ELSE <<>>,
       races        |-> IF "races" \in fs THEN RacesTable ELSE <<>>] :
        fs \in SUBSET Files,
        rs \in ResultTables }

StoreOK(st) == "results" \notin st.files => st.results = <<>>

-----------------------------------------------------------------------------
(* load_data_dict and get_race_story_stats *)

None == [none |-> TRUE]

\* dfs: the files that exist, each with its table; None without data/
load_data_dict(st) ==
    IF ~st.dir THEN None
    ELSE [f \in st.files |-> st[f]]

STATUS_MAP ==
    (1 :> "Finished" @@ 2 :> "Disqualified" @@ 3 :> "Accident" @@ 4 :> "Collision"
     @@ 5 :> "Engine" @@ 6 :> "Gearbox" @@ 7 :> "Transmission" @@ 8 :> "Clutch"
     @@ 9 :> "Hydraulics" @@ 10 :> "Electrical" @@ 11 :> "+1 Lap" @@ 12 :> "+2 Laps"
     @@ 13 :> "+3 Laps" @@ 20 :> "Spun off" @@ 22 :> "Suspension" @@ 31 :> "Retired"
     @@ 104 :> "Fatal accident")

\* Mutant of status_text: another default label
status_or_unknown(statusId) ==
    IF statusId \in DOMAIN STATUS_MAP THEN STATUS_MAP[statusId] ELSE "Unknown"

\* STATUS_MAP.get(statusId, "Technical Issue")
status_text(statusId) ==
    IF statusId \in DOMAIN STATUS_MAP THEN STATUS_MAP[statusId] ELSE "Technical Issue"

\* dfs['results'][dfs['results']['raceId'] == race_id]
race_results(results, race_id) ==
    SelectSeq(results, LAMBDA r : r.raceId = race_id)

\* pd.merge(left, right, on='driverId'): inner join in the order of the left rows
RECURSIVE merge(_, _)
merge(left, right) ==
    IF left = <<>> THEN <<>>
    ELSE LET l == left[1]
             hits == SelectSeq(right, LAMBDA d : d.driverId = l.driverId)
         IN  MapIdx(LAMBDA k : hits[k] @@ l, Len(hits)) \o merge(Tail(left), right)

\* Mutant of with_full_name: the surname alone
with_surname(merged) ==
    MapIdx(LAMBDA k : ("full_name" :> merged[k].surname) @@ merged[k], Len(merged))

\* merged['full_name'] = merged['forename'] + " " + merged['surname']
with_full_name(merged) ==
    MapIdx(LAMBDA k : ("full_name" :> (merged[k].forename \o " " \o merged[k].surname))
                      @@ merged[k],
           Len(merged))

\* Mutant of target_row: every merged row, whatever its full name
any_row(merged, driver_fullname) == merged

\* merged[merged['full_name'] == driver_fullname]
target_row(merged, driver_fullname) ==
    SelectSeq(merged, LAMBDA m : m.full_name = driver_fullname)

Value(v) == [raised |-> "", value |-> v]

Throw(e) == [raised |-> e, value |-> None]

\* Mutant of calc_grid: the raw grid, 0 included
raw_grid(grid) == grid

\* calc_grid = 20 if grid == 0 else grid
calc_grid(grid) == IF grid = 0 THEN 20 ELSE grid

\* Mutant of delta: the places lost, positionOrder - calc_grid
places_lost(grid, pos) == pos - calc_grid(grid)

\* delta = calc_grid - pos
delta(grid, pos) == calc_grid(grid) - pos

\* Mutant of constructor_rows: the table without the filter on constructorId
all_constructors(constructors, constructorId) == constructors

\* dfs['constructors'][dfs['constructors']['constructorId'] == res['constructorId']]
constructor_rows(constructors, constructorId) ==
    SelectSeq(constructors, LAMBDA c : c.constructorId = constructorId)

\* dfs['races'][dfs['races']['raceId'] == race_id]
event_rows(races, race_id) ==
    SelectSeq(races, LAMBDA r : r.raceId = race_id)

\* lines 119-141, reached with a non-empty target_row
StoryFact(dfs, race_id, driver_fullname, res) ==
    IF "constructors" \notin DOMAIN dfs THEN Throw("KeyError")
    ELSE LET cons_rows == constructor_rows(dfs["constructors"], res.constructorId)
         IN  IF cons_rows = <<>> THEN Throw("IndexError")
             ELSE LET cons == cons_rows[1]
                      grid == res.grid
                      pos == res.positionOrder
                  IN  IF "races" \notin DOMAIN dfs THEN Throw("KeyError")
                      ELSE LET race_rows == event_rows(dfs["races"], race_id)
                           IN  IF race_rows = <<>> THEN Throw("IndexError")
                               ELSE Value([year    |-> race_rows[1].year,
                                           gp_name |-> race_rows[1].name,
                                           date    |-> race_rows[1].date,
                                           driver  |-> driver_fullname,
                                           team    |-> cons.name,
                                           grid    |-> grid,
                                           finish  |-> pos,
                                           status  |-> status_text(res.statusId),
                                           delta   |-> delta(grid, pos)])

\* the body of the try block, lines 107-141
StoryBody(dfs, race_id, driver_fullname) ==
    IF "results" \notin DOMAIN dfs \/ "drivers" \notin DOMAIN dfs THEN Throw("KeyError")
    ELSE LET merged == with_full_name(merge(race_results(dfs["results"], race_id),
                                            dfs["drivers"]))
             rows   == target_row(merged, driver_fullname)
         IN  IF rows = <<>> THEN Value(None)
             ELSE StoryFact(dfs, race_id, driver_fullname, rows[1])

\* Mutant of except_none: except KeyError, which lets the IndexError of .iloc[0] out
except_keyerror(r) == IF r.raised = "KeyError" THEN Value(None) ELSE r

\* Mutant of except_none: no except clause, the exception leaves the function
propagate(r) == r

\* except Exception as e: print(...); return None
except_none(r) == IF r.raised # "" THEN Value(None) ELSE r

get_race_story_stats(st, race_id, driver_fullname) ==
    LET dfs == load_data_dict(st)
    IN  IF dfs = None \/ DOMAIN dfs = {} THEN Value(None)
        ELSE except_none(StoryBody(dfs, race_id, driver_fullname))

\* The full names of the store in ascending order of their characters, the
\* order sorted() gives to strings
Alphabetical ==
    <<"Ayrton Senna", "Max Verstappen", "Michael Schumacher", "Mick Schumacher">>

\* sorted(merged['full_name'].unique())
sorted_unique(merged) ==
    SelectSeq(Alphabetical,
              LAMBDA n : \E k \in 1..Len(merged) : merged[k].full_name = n)

\* Mutant of get_drivers_in_race: the results of every race, not of race_id
get_drivers_in_any_race(st, race_id) ==
    LET dfs == load_data_dict(st)
    IN  IF dfs = None \/ DOMAIN dfs = {} THEN Value(<<>>)
        ELSE IF "results" \notin DOMAIN dfs \/ "drivers" \notin DOMAIN dfs
        THEN Throw("KeyError")
        ELSE Value(sorted_unique(with_full_name(merge(dfs["results"], dfs["drivers"]))))

\* lines 88-96; there is no try block, a missing table is a KeyError
get_drivers_in_race(st, race_id) ==
    LET dfs == load_data_dict(st)
    IN  IF dfs = None \/ DOMAIN dfs = {} THEN Value(<<>>)
        ELSE IF "results" \notin DOMAIN dfs \/ "drivers" \notin DOMAIN dfs
        THEN Throw("KeyError")
        ELSE LET res    == race_results(dfs["results"], race_id)
                 merged == with_full_name(merge(res, dfs["drivers"]))
             IN  Value(sorted_unique(merged))

-----------------------------------------------------------------------------
(* The state machines *)

NoCall == [called |-> FALSE]

\* the store of a process started outside a folder that holds data/
NoStore ==
    [dir |-> FALSE, files |-> {}, results |-> <<>>, drivers |-> <<>>,
     constructors |-> <<>>, races |-> <<>>]

\* The Doppelgaenger page: DRIVER_DATA as loaded at start-up
Init ==
    /\ driver_data \in Populations
    /\ rank_call = NoCall
    /\ store = NoStore
    /\ story_call = NoCall
    /\ sessions = <<>>
    /\ drivers_call = NoCall

\* INITIATE SCAN, second half: matches = get_similar_drivers(target_surname, DRIVER_DATA)
CallSimilar(t) ==
    /\ ~rank_call.called
    /\ rank_call' = [called |-> TRUE, target |-> t,
                     out |-> get_similar_drivers(t, driver_data)]
    /\ UNCHANGED <<driver_data, store, story_call, sessions, drivers_call>>

\* INITIATE SCAN, first half: del st.session_state['matches']
ClearMatches ==
    /\ rank_call.called
    /\ rank_call' = NoCall
    /\ UNCHANGED <<driver_data, store, story_call, sessions, drivers_call>>

Next ==
    \/ \E t \in Targets : CallSimilar(t)
    \/ ClearMatches

Spec == Init /\ [][Next]_vars

\* The Race Rewind page: the data/ folder as found; DRIVER_DATA = [] when
\* driver_knowledge.json could not be read
StoryInit ==
    /\ driver_data = <<>>
    /\ rank_call = NoCall
    /\ store \in Stores
    /\ StoreOK(store)
    /\ story_call = NoCall
    /\ sessions = <<>>
    /\ drivers_call = NoCall

\* Mutant of CallStory: the call writes the filtered results back to the store
CallStoryWritingBack(race_id, driver_fullname) ==
    /\ ~story_call.called
    /\ story_call' = [called |-> TRUE, race_id |-> race_id,
                      driver_fullname |-> driver_fullname,
                      out |-> get_race_story_stats(store, race_id, driver_fullname)]
    /\ store' = [store EXCEPT !.results = race_results(store.results, race_id)]
    /\ UNCHANGED <<driver_data, rank_call, sessions, drivers_call>>

\* GENERATE NARRATIVE REPORT: stats = get_race_story_stats(race_id, sel_driver)
CallStory(race_id, driver_fullname) ==
    /\ ~story_call.called
    /\ story_call' = [called |-> TRUE, race_id |-> race_id,
                      driver_fullname |-> driver_fullname,
                      out |-> get_race_story_stats(store, race_id, driver_fullname)]
    /\ UNCHANGED <<driver_data, rank_call, store, sessions, drivers_call>>

\* the next rerun of the page script: stats is a local of the run before
RerunPage ==
    /\ story_call.called
    /\ story_call' = NoCall
    /\ UNCHANGED <<driver_data, rank_call, store, sessions, drivers_call>>

StoryNext ==
    \/ \E race_id \in RaceIds : \E driver_fullname \in FullNames :
           CallStory(race_id, driver_fullname)
    \/ RerunPage

StorySpec == StoryInit /\ [][StoryNext]_vars

-----------------------------------------------------------------------------
(* The Race Rewind page as it is used: the driver is picked from the list  *)
(* of the race, the report is made for the pick.                            *)

RewindInit ==
    /\ driver_data = <<>>
    /\ rank_call = NoCall
    /\ store \in Stores
    /\ StoreOK(store)
    /\ story_call = NoCall
    /\ sessions = <<>>
    /\ drivers_call = NoCall

\* SELECT DRIVER: drivers = get_drivers_in_race(race_id)
ListDrivers(race_id) ==
    /\ ~story_call.called
    /\ drivers_call' = [called |-> TRUE, race_id |-> race_id,
                        out |-> get_drivers_in_race(store, race_id)]
    /\ UNCHANGED <<driver_data, rank_call, store, story_call, sessions>>

\* the options of the selectbox
Listed ==
    IF drivers_call.called /\ drivers_call.out.raised = ""
    THEN { drivers_call.out.value[k] : k \in 1..Len(drivers_call.out.value) }
    ELSE {}

\* GENERATE NARRATIVE REPORT with sel_driver picked from drivers
Narrate(sel_driver) ==
    /\ ~story_call.called
    /\ sel_driver \in Listed
    /\ story_call' = [called |-> TRUE, race_id |-> drivers_call.race_id,
                      driver_fullname |-> sel_driver,
                      out |-> get_race_story_stats(store, drivers_call.race_id, sel_driver)]
    /\ UNCHANGED <<driver_data, rank_call, store, sessions, drivers_call>>

RewindNext ==
    \/ \E race_id \in RaceIds : ListDrivers(race_id)
    \/ \E sel_driver \in FullNames : Narrate(sel_driver)
    \/ RerunPage

RewindSpec == RewindInit /\ [][RewindNext]_vars

-----------------------------------------------------------------------------
(* Concurrent sessions: each page session runs its script in a thread of   *)
(* its own; an invocation reads the shared data when it starts and then    *)
(* works on what it read.                                                   *)

ConcPopulations ==
    { Scenario,
      << Row("N", Rat(17, 2), NaN,       Whole(1),  Whole(30)),
         Row("A", Whole(2),   Whole(1),  Whole(-1), Whole(50)),
         Row("M", Rat(17, 2), Rat(7, 2), Whole(1),  Whole(30)),
         Row("A", Whole(15),  Whole(6),  Whole(3),  Whole(10)) >>,
      << Row("N", Rat(17, 2), NaN,       Whole(1),  Whole(30)) >> }

ConcStores ==
    { NoStore,
      [dir |-> TRUE, files |-> Files,
       results |-> << Result(1, 1, 1, 1, 2, 1), Result(1, 2, 2, 0, 5, 999),
                      Result(2, 1, 1, 3, 1, 1) >>,
       drivers |-> DriversTable, constructors |-> ConstructorsTable,
       races |-> RacesTable],
      [dir |-> TRUE, files |-> Files \ {"constructors"},
       results |-> << Result(1, 2, 2, 0, 5, 999), Result(1, 1, 1, 1, 2, 1) >>,
       drivers |-> DriversTable, constructors |-> <<>>, races |-> RacesTable] }

ConcTargets == {"A", "N"}

ConcNames == {"Michael Schumacher", "Mick Schumacher"}

Idle == [pc |-> "idle"]

ConcInit ==
    /\ driver_data \in ConcPopulations
    /\ store \in ConcStores
    /\ rank_call = NoCall
    /\ story_call = NoCall
    /\ sessions = [s \in 1..NSessions |-> Idle]
    /\ drivers_call = NoCall

\* Mutant of BeginRank: fillna applied to the shared rows instead of a copy
BeginRankInPlace(s, t) ==
    /\ sessions[s].pc = "idle"
    /\ sessions' = [sessions EXCEPT ![s] = [pc |-> "rank", target |-> t, df |-> driver_data]]
    /\ driver_data' =
           LET m == Mean(MapIdx(LAMBDA i : driver_data[i].finish_std, Len(driver_data)))
           IN  MapIdx(LAMBDA i : IF IsNaN(driver_data[i].finish_std)
                                  THEN [driver_data[i] EXCEPT !.finish_std = m]
                                  ELSE driver_data[i],
                      Len(driver_data))
    /\ UNCHANGED <<rank_call, store, story_call, drivers_call>>

\* line 41: df = pd.DataFrame(driver_data), a copy of the shared rows
BeginRank(s, t) ==
    /\ sessions[s].pc = "idle"
    /\ sessions' = [sessions EXCEPT ![s] = [pc |-> "rank", target |-> t, df |-> driver_data]]
    /\ UNCHANGED <<driver_data, rank_call, store, story_call, drivers_call>>

\* lines 42-68, on df alone
FinishRank(s) ==
    /\ sessions[s].pc = "rank"
    /\ sessions' = [sessions EXCEPT ![s] =
                       [pc |-> "ranked", target |-> sessions[s].target,
                        out |-> get_similar_drivers(sessions[s].target, sessions[s].df)]]
    /\ UNCHANGED <<driver_data, rank_call, store, story_call, drivers_call>>

\* line 103: dfs = load_data_dict(), the files as they are now
BeginStory(s, race_id, driver_fullname) ==
    /\ sessions[s].pc = "idle"
    /\ sessions' = [sessions EXCEPT ![s] =
                       [pc |-> "story", race_id |-> race_id,
                        driver_fullname |-> driver_fullname, read |-> store]]
    /\ UNCHANGED <<driver_data, rank_call, store, story_call, drivers_call>>

\* lines 104-144, on dfs alone
FinishStory(s) ==
    /\ sessions[s].pc = "story"
    /\ sessions' = [sessions EXCEPT ![s] =
                       [pc |-> "told", race_id |-> sessions[s].race_id,
                        driver_fullname |-> sessions[s].driver_fullname,
                        out |-> get_race_story_stats(sessions[s].read,
                                                     sessions[s].race_id,
                                                     sessions[s].driver_fullname)]]
    /\ UNCHANGED <<driver_data, rank_call, store, story_call, drivers_call>>

\* the session's next rerun
EndRun(s) ==
    /\ sessions[s].pc \in {"ranked", "told"}
    /\ sessions' = [sessions EXCEPT ![s] = Idle]
    /\ UNCHANGED <<driver_data, rank_call, store, story_call, drivers_call>>

ConcNext ==
    \E s \in 1..NSessions :
        \/ \E t \in ConcTargets : BeginRank(s, t)
        \/ FinishRank(s)
        \/ \E driver_fullname \in ConcNames : BeginStory(s, 1, driver_fullname)
        \/ FinishStory(s)
        \/ EndRun(s)

ConcSpec == ConcInit /\ [][ConcNext]_vars

-----------------------------------------------------------------------------
(* Successive scans in one process: every rerun of the page script reads   *)
(* driver_knowledge.json again, so two scans can see two populations.      *)

SeqPopulations ==
    { <<>>,
      Scenario,
      << Row("A", Whole(2),   Whole(1),  Whole(-1), Whole(50)),
         Row("M", Rat(17, 2), Rat(7, 2), Whole(1),  Whole(30)),
         Row("A", Whole(15),  Whole(6),  Whole(3),  Whole(10)) >>,
      << Row("N", Rat(17, 2), NaN,       Whole(1),  Whole(30)),
         Row("B", Whole(3),   Rat(3, 2), Rat(-1, 2), Whole(40)),
         Row("M", Rat(17, 2), Rat(7, 2), Whole(1),  Whole(30)),
         Row("A", Whole(2),   Whole(1),  Whole(-1), Whole(50)) >>,
      << Row("B", Whole(3),   Rat(3, 2), Rat(-1, 2), Whole(40)),
         Row("M", Rat(17, 2), Rat(7, 2), Whole(1),  Whole(30)),
         Row("A", Whole(2),   Whole(1),  Whole(-1), Whole(50)) >>,
      << Row("N", Rat(17, 2), NaN,       Whole(1),  Whole(30)) >> }

SeqTargets == {"A", "B", "N"}

SeqInit ==
    /\ driver_data \in SeqPopulations
    /\ rank_call = NoCall
    /\ store = NoStore
    /\ story_call = NoCall
    /\ sessions = <<>>
    /\ drivers_call = NoCall

\* DRIVER_DATA = json.load(f) of the next run; st.session_state is kept
LoadDriverData(data) ==
    /\ data # driver_data
    /\ driver_data' = data
    /\ UNCHANGED <<rank_call, store, story_call, sessions, drivers_call>>

\* the transform of one column with the bounds fitted on another
ScaleColumnFitted(fitted, col) ==
    LET present == SelectSeq(fitted, NotNaN)
    IN  IF present = <<>> THEN col
        ELSE LET data_min   == RMin(present)
                 data_range == RSub(RMax(present), data_min)
                 scale_     == RDiv(Whole(1),
                                    IF data_range = Whole(0) THEN Whole(1) ELSE data_range)
                 min_       == RSub(Whole(0), RMul(data_min, scale_))
             IN  MapIdx(LAMBDA i : RAdd(RMul(col[i], scale_), min_), Len(col))

\* the scores of df with a scaler that was fitted on the rows of an earlier call
RankStale(target_driver, df, earlier) ==
    LET m       == fillna(RawFeatures(df))
        fit     == fillna(RawFeatures(earlier))
        cols    == MapIdx(LAMBDA f : ScaleColumnFitted(Column(fit, f), Column(m, f)), 4)
        vectors == MapIdx(LAMBDA i : MapIdx(LAMBDA f : cols[f][i], 4), Len(m))
        target_idx == FirstIndex(df, target_driver)
    IN  IF HasNaN(vectors) THEN Raised("ValueError")
        ELSE Returned(TakeTop(SortedDesc(sim_scores(vectors, target_idx)),
                              target_idx, df, <<>>))

\* the populations of the calls made before this one
Earlier == IF rank_call.called THEN Append(rank_call.earlier, rank_call.data) ELSE <<>>

\* Mutant of Scan: the scaler of the first call is kept for the later ones
ScanStaleBounds(t) ==
    /\ Len(Earlier) < MaxCalls
    /\ rank_call' =
           [called |-> TRUE, target |-> t, data |-> driver_data, earlier |-> Earlier,
            out |-> IF Earlier # <<>> /\ Earlier[1] # <<>>
                       /\ InPopulation(t, driver_data)
                    THEN RankStale(t, driver_data, Earlier[1])
                    ELSE get_similar_drivers(t, driver_data)]
    /\ UNCHANGED <<driver_data, store, story_call, sessions, drivers_call>>

\* INITIATE SCAN: matches = get_similar_drivers(target_surname, DRIVER_DATA),
\* with the scaler made inside the call
Scan(t) ==
    /\ Len(Earlier) < MaxCalls
    /\ rank_call' =
           [called |-> TRUE, target |-> t, data |-> driver_data, earlier |-> Earlier,
            out |-> get_similar_drivers(t, driver_data)]
    /\ UNCHANGED <<driver_data, store, story_call, sessions, drivers_call>>

SeqNext ==
    \/ \E data \in SeqPopulations : LoadDriverData(data)
    \/ \E t \in SeqTargets : Scan(t)

SeqSpec == SeqInit /\ [][SeqNext]_vars

-----------------------------------------------------------------------------
(* The driver list of the page (app.py): DRIVER_LIST is built at start-up  *)
(* from the full names of the CSV store and the surnames of DRIVER_DATA,   *)
(* and INITIATE SCAN ranks the last word of the entry that was picked.     *)

\* the words names are made of
Words ==
    {"Max", "Michael", "Mick", "Schumacher", "Verstappen", "de", "Vries",
     "schumacher", "verstappen"}

\* str.lower() on a word
Lower ==
    ("Max" :> "max" @@ "Michael" :> "michael" @@ "Mick" :> "mick"
     @@ "Schumacher" :> "schumacher" @@ "Verstappen" :> "verstappen"
     @@ "de" :> "de" @@ "Vries" :> "vries"
     @@ "schumacher" :> "schumacher" @@ "verstappen" :> "verstappen")

\* " ".join(ws)
RECURSIVE Join(_)
Join(ws) ==
    IF Len(ws) = 1 THEN ws[1]
    ELSE Join(SubSeq(ws, 1, Len(ws) - 1)) \o " " \o ws[Len(ws)]

\* str.split(): the words of a string that has single blanks between them
split(s) ==
    CHOOSE ws \in SeqsUpTo(Words, MaxWords) \ {<<>>} : Join(ws) = s

\* str.lower() on a string
lower(s) ==
    LET ws == split(s)
    IN  Join(MapIdx(LAMBDA k : Lower[ws[k]], Len(ws)))

\* full_name.split()[-1]
surname_token(full_name) ==
    LET ws == split(full_name)
    IN  ws[Len(ws)]

\* the strings of the model in the order sorted() gives them (by code point)
CodePointOrder ==
    <<"Max Verstappen", "Michael Schumacher", "Mick Schumacher", "Schumacher",
      "Verstappen", "de Vries", "schumacher", "verstappen">>

\* sorted() of a set of strings
sorted(strings) == SelectSeq(CodePointOrder, LAMBDA n : n \in strings)

\* the full_name of a result row whose driverId is not in drivers.csv: the
\* float NaN, written here as a string no name is equal to
NoName == "nan"

\* load_race_data(): None without results.csv and when reading or merging
\* fails; otherwise the full_name column of results left-joined with drivers
load_race_data(st) ==
    IF ~st.dir \/ "results" \notin st.files THEN None
    ELSE IF "drivers" \notin st.files \/ "races" \notin st.files THEN None
    ELSE [full_name |->
            { IF \E j \in 1..Len(st.drivers) : st.drivers[j].driverId = st.results[i].driverId
              THEN LET j == CHOOSE j \in 1..Len(st.drivers) :
                                st.drivers[j].driverId = st.results[i].driverId
                   IN  st.drivers[j].forename \o " " \o st.drivers[j].surname
              ELSE NoName : i \in 1..Len(st.results) }]

\* app.py lines 78-96.  A missing full_name is a float: sorted() cannot
\* compare it with a string, and alone it has no split().
DRIVER_LIST(RACE_DATA_CACHE, DRIVER_DATA) ==
    IF RACE_DATA_CACHE # None /\ DRIVER_DATA # <<>>
    THEN LET valid_json_surnames ==
                 { lower(DRIVER_DATA[i].surname) : i \in 1..Len(DRIVER_DATA) }
             names == RACE_DATA_CACHE.full_name
         IN  IF NoName \in names
             THEN Throw(IF names = {NoName} THEN "AttributeError" ELSE "TypeError")
             ELSE Value(SelectSeq(sorted(names),
                                  LAMBDA full_name :
                                      lower(surname_token(full_name))
                                          \in valid_json_surnames))
    ELSE Value(sorted({ DRIVER_DATA[i].surname : i \in 1..Len(DRIVER_DATA) }))

\* The statistics of RowPool under the surnames of the page
ListRows ==
    { Row("Schumacher", Whole(2),   Whole(1),  Whole(-1), Whole(50)),
      Row("verstappen", Rat(17, 2), Rat(7, 2), Whole(1),  Whole(30)),
      Row("Verstappen", Whole(15),  Whole(6),  Whole(3),  Whole(10)),
      Row("de Vries",   Rat(17, 2), Rat(7, 2), Whole(1),  Whole(30)) }

ListPopulations == SeqsUpTo(ListRows, MaxListPop)

ListStores ==
    { NoStore,
      [dir |-> TRUE, files |-> Files,
       results |-> << Result(1, 1, 1, 1, 2, 1), Result(1, 2, 2, 0, 5, 999),
                      Result(2, 3, 2, 0, 20, 4) >>,
       drivers |-> DriversTable, constructors |-> ConstructorsTable,
       races |-> RacesTable],
      [dir |-> TRUE, files |-> Files,
       results |-> << Result(2, 1, 1, 3, 1, 1), Result(2, 9, 1, 5, 6, 3) >>,
       drivers |-> DriversTable, constructors |-> ConstructorsTable,
       races |-> RacesTable],
      [dir |-> TRUE, files |-> Files \ {"races"},
       results |-> << Result(1, 1, 1, 1, 2, 1) >>,
       drivers |-> DriversTable, constructors |-> ConstructorsTable,
       races |-> <<>>] }

ListInit ==
    /\ driver_data \in ListPopulations
    /\ rank_call = NoCall
    /\ store \in ListStores
    /\ story_call = NoCall
    /\ sessions = <<>>
    /\ drivers_call = NoCall

\* the options of the "Target Driver" selectbox
Options ==
    LET list == DRIVER_LIST(load_race_data(store), driver_data)
    IN  IF list.raised # "" THEN {}
        ELSE { list.value[k] : k \in 1..Len(list.value) }

\* INITIATE SCAN on the entry picked in the selectbox
ScanListed(target_twin_full) ==
    /\ ~rank_call.called
    /\ target_twin_full \in Options
    /\ rank_call' =
           LET target_surname == surname_token(target_twin_full)
           IN  [called |-> TRUE, target_twin_full |-> target_twin_full,
                target |-> target_surname,
                out |-> get_similar_drivers(target_surname, driver_data)]
    /\ UNCHANGED <<driver_data, store, story_call, sessions, drivers_call>>

ListNext ==
    \/ \E i \in 1..Len(CodePointOrder) : ScanListed(CodePointOrder[i])
    \/ ClearMatches

ListSpec == ListInit /\ [][ListNext]_vars

-----------------------------------------------------------------------------
(* Properties of the ranker *)

Called == rank_call.called

Out == rank_call.out

TargetPresent == InPopulation(rank_call.target, driver_data)

Min2(a, b) == IF a < b THEN a ELSE b

\* C1: when the population is non-empty and holds a row with the target's
\* surname, no returned match is the target row itself (the first row with
\* that surname, which supplies the target vector).
C1_SelfExclusion ==
    (Called /\ driver_data # <<>> /\ TargetPresent) =>
        \A k \in 1..Len(Out.top_matches) :
            Out.top_matches[k].idx # FirstIndex(driver_data, rank_call.target)

C1_Witness ==
    /\ Called /\ TargetPresent
    /\ Out.raised = ""
    /\ Len(Out.top_matches) = 3

\* C2: the ranker never returns more than 3 matches, and with the target
\* present in a population of n rows it returns exactly min(3, n - 1) matches.
C2_Cardinality ==
    Called =>
        /\ Len(Out.top_matches) <= 3
        /\ TargetPresent =>
               /\ Out.raised = ""
               /\ Len(Out.top_matches) = Min2(3, Len(driver_data) - 1)

\* C3: for a non-empty population in which no row has the target's surname
\* the ranker returns the empty sequence and does not raise.
C3_AbsentTarget ==
    (Called /\ driver_data # <<>> /\ ~TargetPresent) => Out = Returned(<<>>)

C3_Witness ==
    /\ Called /\ ~TargetPresent
    /\ Len(driver_data) >= 2
    /\ Out = Returned(<<>>)

\* the score of every row against the target row, in population order
ScoresNow ==
    sim_scores(fit_transform(fillna(RawFeatures(driver_data))),
               FirstIndex(driver_data, rank_call.target))

ReturnedIdx == { Out.top_matches[k].idx : k \in 1..Len(Out.top_matches) }

\* the rows that were candidates and are not among the matches
LeftOut ==
    { k \in 1..Len(driver_data) :
        k # FirstIndex(driver_data, rank_call.target) /\ k \notin ReturnedIdx }

\* C5: rows of equal score are listed in population order, and where the
\* top-3 cut falls among rows of equal score the rows of smaller index are
\* the ones kept.
C5_TieOrder ==
    (Called /\ TargetPresent /\ Out.raised = "") =>
        LET ms == Out.top_matches
        IN  /\ \A i, j \in 1..Len(ms) :
                   (i < j /\ ms[i].similarity_score = ms[j].similarity_score)
                       => ms[i].idx < ms[j].idx
            /\ LeftOut # {} =>
                   LET vectors == fit_transform(fillna(RawFeatures(driver_data)))
                       target  == vectors[FirstIndex(driver_data, rank_call.target)]
                   IN  \A k \in LeftOut :
                           LET score == cosine_similarity(target, vectors[k])
                           IN  \A i \in 1..Len(ms) :
                                   ms[i].similarity_score = score => ms[i].idx < k

\* two different rows tie inside the matches and a third ties at the cut
C5_Witness ==
    /\ Called /\ TargetPresent /\ Out.raised = ""
    /\ Len(Out.top_matches) = 3
    /\ Out.top_matches[2].similarity_score = Out.top_matches[3].similarity_score
    /\ Out.top_matches[2].row # Out.top_matches[3].row
    /\ LET scores == ScoresNow
       IN  \E k \in LeftOut : scores[k].score = Out.top_matches[3].similarity_score

NoStd == { i \in 1..Len(driver_data) : IsNaN(driver_data[i].finish_std) }

\* the population with the missing finish_std of member i replaced by the
\* arithmetic mean of the finish_std of the other members
StdFilledBefore(i) ==
    LET others == SelectSeq(MapIdx(LAMBDA j : IF j = i THEN NaN
                                              ELSE driver_data[j].finish_std,
                                   Len(driver_data)), NotNaN)
        m == RDiv(RSum(others), Whole(Len(others)))
    IN  [driver_data EXCEPT ![i].finish_std = m]

\* C7: when exactly one member lacks finish_std, the features the code
\* derives (transform, then fill with the column mean) are the features of
\* the population in which that member's finish_std is the mean of the others'.
C7_FillCommutes ==
    (Called /\ TargetPresent /\ Cardinality(NoStd) = 1 /\ Len(driver_data) >= 2) =>
        LET i == CHOOSE i \in NoStd : TRUE
        IN  fillna(RawFeatures(driver_data)) = RawFeatures(StdFilledBefore(i))

\* the others' finish_std differ from one another, so that the mean is none of them
C7_Witness ==
    /\ Called /\ TargetPresent /\ Cardinality(NoStd) = 1 /\ Len(driver_data) >= 4
    /\ Out.raised = ""
    /\ \E j, k \in 1..Len(driver_data) :
           /\ j \notin NoStd /\ k \notin NoStd
           /\ driver_data[j].finish_std # driver_data[k].finish_std

\* C8: in the scenario population the ranker called for "A" returns B before C.
C8_Scenario ==
    (Called /\ driver_data = Scenario /\ rank_call.target = "A") =>
        /\ Out.raised = ""
        /\ Len(Out.top_matches) = 2
        /\ Out.top_matches[1].row.surname = "B"
        /\ Out.top_matches[2].row.surname = "C"

C8_Witness ==
    /\ Called /\ driver_data = Scenario /\ rank_call.target = "A"
    /\ Len(Out.top_matches) = 2
    /\ RLess(Out.top_matches[2].similarity_score, Out.top_matches[1].similarity_score)

\* C16: the matches are in non-increasing order of score, and no candidate
\* that was left out has a higher score than the lowest match.
C16_Descending ==
    (Called /\ TargetPresent /\ Out.raised = "") =>
        LET ms == Out.top_matches
        IN  /\ \A k \in 1..(Len(ms) - 1) :
                   RLeq(ms[k + 1].similarity_score, ms[k].similarity_score)
            /\ LeftOut # {} =>
                   LET vectors == fit_transform(fillna(RawFeatures(driver_data)))
                       target  == vectors[FirstIndex(driver_data, rank_call.target)]
                   IN  \A k \in LeftOut :
                           RLeq(cosine_similarity(target, vectors[k]),
                                ms[Len(ms)].similarity_score)

C16_Witness ==
    /\ Called /\ TargetPresent /\ Out.raised = ""
    /\ Len(Out.top_matches) = 3
    /\ RLess(Out.top_matches[3].similarity_score, Out.top_matches[1].similarity_score)
    /\ LET scores == ScoresNow
       IN  \E k \in LeftOut :
               RLess(scores[k].score, Out.top_matches[3].similarity_score)

\* the features as they enter normalization
FilledNow == fillna(RawFeatures(driver_data))

\* C17: whatever is null in a population that holds the target, every
\* feature of every row is defined when normalization starts and the
\* ranker does not raise.
C17_NoMissingData ==
    (Called /\ TargetPresent) =>
        /\ ~HasNaN(FilledNow)
        /\ Out.raised = ""

ZeroVector == <<Whole(0), Whole(0), Whole(0), Whole(0)>>

\* C18: a match scores 0 when its normalized vector or that of the target
\* is all-zero, and the ranker returns.
C18_ZeroVector ==
    (Called /\ TargetPresent /\ ~HasNaN(FilledNow)) =>
        /\ Out.raised = ""
        /\ (\E k \in 1..Len(Out.top_matches) :
                Out.top_matches[k].similarity_score # Whole(0)) =>
               LET vectors == fit_transform(FilledNow)
                   target_idx == FirstIndex(driver_data, rank_call.target)
               IN  \A k \in 1..Len(Out.top_matches) :
                       (vectors[target_idx] = ZeroVector
                            \/ vectors[Out.top_matches[k].idx] = ZeroVector)
                           => Out.top_matches[k].similarity_score = Whole(0)

\* the target is the zero vector, two of its matches are not
C18_Witness ==
    /\ Called /\ TargetPresent /\ ~HasNaN(FilledNow)
    /\ Len(Out.top_matches) = 3
    /\ LET vectors == fit_transform(FilledNow)
           target_idx == FirstIndex(driver_data, rank_call.target)
       IN  /\ vectors[target_idx] = ZeroVector
           /\ vectors[Out.top_matches[1].idx] # ZeroVector
           /\ vectors[Out.top_matches[2].idx] # ZeroVector
           /\ vectors[Out.top_matches[3].idx] = ZeroVector

\* C19: each feature dimension is scaled on its own to (x - min) / (max - min)
\* over the population, so a minimum becomes 0 and a maximum 1; a dimension
\* with max = min becomes 0 for every row.
C19_MinMax ==
    (Called /\ TargetPresent) =>
        LET filled == FilledNow
        IN  ~HasNaN(filled) =>
                LET vectors == fit_transform(filled)
                IN  \A f \in features :
                        LET col == Column(filled, f)
                            lo  == RMin(col)
                            hi  == RMax(col)
                        IN  \A i \in 1..Len(col) :
                                /\ hi = lo => vectors[i][f] = Whole(0)
                                /\ hi # lo =>
                                       /\ vectors[i][f]
                                              = RDiv(RSub(col[i], lo), RSub(hi, lo))
                                       /\ col[i] = lo => vectors[i][f] = Whole(0)
                                       /\ col[i] = hi => vectors[i][f] = Whole(1)

\* a row strictly between the minimum and the maximum of a dimension
C19_Witness ==
    /\ Called /\ TargetPresent /\ Len(driver_data) >= 3 /\ ~HasNaN(FilledNow)
    /\ LET vectors == fit_transform(FilledNow)
       IN  \E i \in 1..Len(vectors) : \E f \in features :
               /\ RLess(Whole(0), vectors[i][f])
               /\ RLess(vectors[i][f], Whole(1))
               /\ vectors[i][f] # Rat(1, 2)

\* the rows with all four statistics
Complete ==
    { i \in 1..Len(driver_data) :
        /\ NotNaN(driver_data[i].avg_finish) /\ NotNaN(driver_data[i].finish_std)
        /\ NotNaN(driver_data[i].delta_vs_team) /\ NotNaN(driver_data[i].races) }

\* C20: a row with all its statistics has pace = 22 - avg_finish,
\* consistency = 15 - finish_std, skill = -delta_vs_team, experience = races,
\* so the strictly better statistic has the strictly larger raw feature.
C20_Orientation ==
    (Called /\ TargetPresent) =>
        LET raw == RawFeatures(driver_data)
        IN  /\ \A i \in Complete :
                   /\ RAdd(raw[i][1], driver_data[i].avg_finish) = Whole(22)
                   /\ RAdd(raw[i][2], driver_data[i].finish_std) = Whole(15)
                   /\ RAdd(raw[i][3], driver_data[i].delta_vs_team) = Whole(0)
                   /\ raw[i][4] = driver_data[i].races
            /\ \A i, j \in Complete :
                   /\ RLess(driver_data[i].avg_finish, driver_data[j].avg_finish)
                          => RLess(raw[j][1], raw[i][1])
                   /\ RLess(driver_data[i].finish_std, driver_data[j].finish_std)
                          => RLess(raw[j][2], raw[i][2])
                   /\ RLess(driver_data[i].delta_vs_team, driver_data[j].delta_vs_team)
                          => RLess(raw[j][3], raw[i][3])
                   /\ RLess(driver_data[j].races, driver_data[i].races)
                          => RLess(raw[j][4], raw[i][4])

\* a row that is better than another in all four statistics
C20_Witness ==
    /\ Called /\ TargetPresent
    /\ \E i, j \in Complete :
           /\ RLess(driver_data[i].avg_finish, driver_data[j].avg_finish)
           /\ RLess(driver_data[i].finish_std, driver_data[j].finish_std)
           /\ RLess(driver_data[i].delta_vs_team, driver_data[j].delta_vs_team)
           /\ RLess(driver_data[j].races, driver_data[i].races)
           /\ RLess(driver_data[i].delta_vs_team, Whole(0))

\* C25: for a population of no rows the ranker returns the empty sequence
\* and does not raise.
C25_EmptyPopulation ==
    (Called /\ driver_data = <<>>) => Out = Returned(<<>>)

\* the rows that carry the target's surname
Namesakes == { i \in 1..Len(driver_data) : driver_data[i].surname = rank_call.target }

\* C26: of several rows with the target's surname the first in population
\* order supplies the target vector and is the only one excluded: every score
\* is the similarity to that row, and each other row with the surname is
\* returned unless three rows that score at least as high are.
C26_FirstNamesake ==
    (Called /\ Cardinality(Namesakes) >= 2 /\ Out.raised = "") =>
        LET first   == CHOOSE i \in Namesakes : \A k \in Namesakes : i <= k
            vectors == fit_transform(FilledNow)
            ms      == Out.top_matches
        IN  /\ \A k \in 1..Len(ms) :
                   /\ ms[k].idx # first
                   /\ ms[k].similarity_score
                          = cosine_similarity(vectors[first], vectors[ms[k].idx])
            /\ \A i \in Namesakes \ {first} :
                   \/ \E k \in 1..Len(ms) : ms[k].idx = i
                   \/ /\ Len(ms) = 3
                      /\ RLeq(cosine_similarity(vectors[first], vectors[i]),
                              ms[3].similarity_score)

\* a second row with the target's surname, unlike the first, is a match
C26_Witness ==
    /\ Called /\ TargetPresent /\ Out.raised = ""
    /\ Cardinality(Namesakes) >= 2
    /\ Len(Out.top_matches) >= 2
    /\ \E k \in 1..Len(Out.top_matches) :
           /\ Out.top_matches[k].row.surname = rank_call.target
           /\ Out.top_matches[k].similarity_score # Whole(1)

\* C29: f1_chat.get_similar_drivers returns what f1_logic.get_similar_drivers
\* returns: the same matches in the same order with the same scores, the
\* empty sequence where it returns the empty sequence.
C29_SameRanker ==
    Called => Out = chat_get_similar_drivers(rank_call.target, driver_data)

C29_Witness ==
    /\ Called /\ TargetPresent /\ Out.raised = ""
    /\ \E i \in 1..Len(driver_data) : IsNaN(driver_data[i].finish_std)
    /\ Len(Out.top_matches) = 3
    /\ Out.top_matches[1].similarity_score # Out.top_matches[2].similarity_score
    /\ Out.top_matches[2].similarity_score # Out.top_matches[3].similarity_score
    /\ Out = chat_get_similar_drivers(rank_call.target, driver_data)

-----------------------------------------------------------------------------
(* Properties of the event reconstruction *)

StoryCalled == story_call.called

StoryOut == story_call.out

\* the result rows of the event that belong to a competitor whose given
\* name + " " + surname is the name asked for
OwnRows ==
    { i \in 1..Len(store.results) :
        /\ store.results[i].raceId = story_call.race_id
        /\ \E j \in 1..Len(store.drivers) :
               /\ store.drivers[j].driverId = store.results[i].driverId
               /\ store.drivers[j].forename \o " " \o store.drivers[j].surname
                      = story_call.driver_fullname }

\* C9: when no result row of the event belongs to a competitor of that full
\* name, the reconstruction returns None and does not raise.
C9_NotFound ==
    (StoryCalled /\ OwnRows = {}) => StoryOut = Value(None)

\* the driver raced, but not in this event, and every file is there
C9_Witness ==
    /\ StoryCalled /\ OwnRows = {}
    /\ store.files = Files
    /\ \E i \in 1..Len(store.results) :
           /\ store.results[i].raceId # story_call.race_id
           /\ store.results[i].driverId = 1
    /\ \E i \in 1..Len(store.results) : store.results[i].raceId = story_call.race_id
    /\ story_call.driver_fullname = "Michael Schumacher"
    /\ StoryOut = Value(None)

TeamNames(constructorId) ==
    { store.constructors[k].name :
        k \in { k \in 1..Len(store.constructors) :
                    store.constructors[k].constructorId = constructorId } }

\* C10: a returned fact carries the grid, finish, status and team of a result
\* row of the requested event whose competitor has the requested full name;
\* so with two competitors of one event sharing a surname, the fact of one
\* is never built from the row of the other.
C10_OwnRow ==
    (StoryCalled /\ StoryOut.raised = "" /\ StoryOut.value # None) =>
        \E i \in OwnRows :
            LET row == store.results[i]
                fact == StoryOut.value
            IN  /\ fact.grid = row.grid
                /\ fact.finish = row.positionOrder
                /\ fact.status = status_text(row.statusId)
                /\ fact.team \in TeamNames(row.constructorId)
                /\ fact.driver = story_call.driver_fullname

\* Mick Schumacher is asked for, and Michael Schumacher's row of the same
\* event comes first in results.csv
C10_Witness ==
    /\ StoryCalled /\ StoryOut.raised = "" /\ StoryOut.value # None
    /\ story_call.driver_fullname = "Mick Schumacher"
    /\ \E i, j \in 1..Len(store.results) :
           /\ i < j
           /\ store.results[i].raceId = story_call.race_id
           /\ store.results[i].driverId = 1
           /\ store.results[j].raceId = story_call.race_id
           /\ store.results[j].driverId = 2

\* the matched row: the first result row of the event whose competitor has
\* the full name asked for
Matched == store.results[CHOOSE i \in OwnRows : \A k \in OwnRows : i <= k]

\* every table is loaded and holds the team and the event of the matched row
Joinable ==
    /\ store.dir /\ store.files = Files
    /\ OwnRows # {}
    /\ TeamNames(Matched.constructorId) # {}
    /\ \E k \in 1..Len(store.races) : store.races[k].raceId = story_call.race_id

IsFact(out) == out.raised = "" /\ out.value # None

\* C11: for a matched row with grid = 0 the fact has delta = 20 - positionOrder
\* and reports grid = 0.
C11_GridZero ==
    (StoryCalled /\ Joinable /\ Matched.grid = 0) =>
        /\ IsFact(StoryOut)
        /\ StoryOut.value.delta = 20 - Matched.positionOrder
        /\ StoryOut.value.grid = 0

C11_Witness ==
    /\ StoryCalled /\ Joinable /\ Matched.grid = 0
    /\ IsFact(StoryOut)
    /\ StoryOut.value.delta = 15
    /\ StoryOut.value.finish = 5

\* C12: for a matched row whose status code is not in the status table the
\* fact has status "Technical Issue"; the unknown code makes the call neither
\* raise nor return None.
C12_UnknownStatus ==
    (StoryCalled /\ Joinable /\ Matched.statusId \notin DOMAIN STATUS_MAP) =>
        /\ IsFact(StoryOut)
        /\ StoryOut.value.status = "Technical Issue"

C12_Witness ==
    /\ StoryCalled /\ Joinable /\ Matched.statusId = 999
    /\ IsFact(StoryOut)

\* the relational store cannot be loaded: no data/ folder, or no results.csv
Unavailable == ~store.dir \/ "results" \notin store.files

\* C13: with the relational store missing the reconstruction signals a
\* failure that differs from the None it returns for a competitor who did
\* not take part.
C13_HardFailure ==
    (StoryCalled /\ Unavailable) => StoryOut # Value(None)

\* C14: a call leaves the four tables as they were, and the fact it returned
\* for a pair that is in the data is the fact a further call over the store
\* returns.
C14_ReadOnly ==
    /\ [][store' = store]_vars
    /\ []((StoryCalled /\ OwnRows # {}) =>
              StoryOut = get_race_story_stats(store, story_call.race_id,
                                              story_call.driver_fullname))

C14_Witness ==
    /\ StoryCalled /\ OwnRows # {}
    /\ IsFact(StoryOut)
    /\ Len(store.results) >= 2
    /\ StoryOut.value.driver = "Max Verstappen"

-----------------------------------------------------------------------------
(* Properties of concurrent invocations *)

\* C15: under every interleaving of the invocations of the sessions, no
\* step writes the population or the tables, and every finished invocation
\* holds the result the operation gives when run alone on the same inputs.
C15_Isolation ==
    /\ [][driver_data' = driver_data /\ store' = store]_vars
    /\ [](\A s \in DOMAIN sessions :
              /\ sessions[s].pc = "ranked" =>
                     sessions[s].out = get_similar_drivers(sessions[s].target, driver_data)
              /\ sessions[s].pc = "told" =>
                     sessions[s].out = get_race_story_stats(store, sessions[s].race_id,
                                                            sessions[s].driver_fullname))

\* a ranking with matches and a reconstruction with a fact, finished side by side
C15_Witness ==
    \E s1, s2 \in DOMAIN sessions :
        /\ sessions[s1].pc = "ranked"
        /\ Len(sessions[s1].out.top_matches) >= 2
        /\ sessions[s2].pc = "told"
        /\ IsFact(sessions[s2].out)

-----------------------------------------------------------------------------
(* Properties of successive scans *)

\* the column bounds MinMaxScaler fits on a population
Bounds(df) ==
    LET m == fillna(RawFeatures(df))
    IN  MapIdx(LAMBDA f : <<RMin(Column(m, f)), RMax(Column(m, f))>>, 4)

-----------------------------------------------------------------------------
(* Further properties of the event reconstruction *)

\* C22: for a matched row with grid >= 1 the fact has delta = grid -
\* positionOrder, which is positive exactly when positionOrder < grid, negative
\* exactly when positionOrder > grid and 0 when they are equal, and its finish
\* is positionOrder.
C22_Delta ==
    (StoryCalled /\ Joinable /\ Matched.grid >= 1) =>
        /\ IsFact(StoryOut)
        /\ StoryOut.value.delta = Matched.grid - Matched.positionOrder
        /\ StoryOut.value.finish = Matched.positionOrder
        /\ StoryOut.value.delta > 0 <=> Matched.positionOrder < Matched.grid
        /\ StoryOut.value.delta < 0 <=> Matched.positionOrder > Matched.grid
        /\ StoryOut.value.delta = 0 <=> Matched.positionOrder = Matched.grid

\* third on the grid, first at the flag
C22_Witness ==
    /\ StoryCalled /\ Joinable /\ IsFact(StoryOut)
    /\ Matched.grid = 3 /\ Matched.positionOrder = 1
    /\ StoryOut.value.delta = 2

\* C23: the team of a fact is the name of the constructors row with the
\* matched row's constructorId; its year, gp_name and date are those of the
\* races row with the requested raceId.
C23_Joins ==
    (StoryCalled /\ IsFact(StoryOut)) =>
        /\ OwnRows # {}
        /\ \E k \in 1..Len(store.constructors) :
               /\ store.constructors[k].constructorId = Matched.constructorId
               /\ store.constructors[k].name = StoryOut.value.team
        /\ \E k \in 1..Len(store.races) :
               /\ store.races[k].raceId = story_call.race_id
               /\ store.races[k].year = StoryOut.value.year
               /\ store.races[k].name = StoryOut.value.gp_name
               /\ store.races[k].date = StoryOut.value.date

\* neither the first constructors row nor the first races row
C23_Witness ==
    /\ StoryCalled /\ IsFact(StoryOut)
    /\ StoryOut.value.team = "Haas F1 Team"
    /\ StoryOut.value.year = 2021
    /\ StoryOut.value.gp_name = "Dutch Grand Prix"

FactFields ==
    {"year", "gp_name", "date", "driver", "team", "grid", "finish", "status", "delta"}

\* the faults of the store: no data/ folder, a file that is not there, a
\* matched row whose team is not in constructors, an event that is not in races
StoreFault ==
    \/ ~store.dir
    \/ store.files # Files
    \/ OwnRows # {} /\ TeamNames(Matched.constructorId) = {}
    \/ \A k \in 1..Len(store.races) : store.races[k].raceId # story_call.race_id

\* C28: the reconstruction raises for no store and no input: it returns a
\* fact with all nine fields or None, and None for every fault of the store
\* as for a competitor who did not race in the event.
C28_NeverRaises ==
    StoryCalled =>
        /\ StoryOut.raised = ""
        /\ StoryOut.value # None => DOMAIN StoryOut.value = FactFields
        /\ StoreFault => StoryOut.value = None
        /\ (store.dir /\ {"results", "drivers"} \subseteq store.files /\ OwnRows = {})
               => StoryOut.value = None

\* the matched row's team is not in constructors.csv
C28_Witness ==
    /\ StoryCalled /\ store.files = Files
    /\ OwnRows # {} /\ TeamNames(Matched.constructorId) = {}
    /\ \E k \in 1..Len(store.races) : store.races[k].raceId = story_call.race_id
    /\ StoryOut = Value(None)

-----------------------------------------------------------------------------
(* Properties of the driver list of a race *)

\* given name + " " + surname of the competitors with a result row in the race
Entrants ==
    { store.drivers[j].forename \o " " \o store.drivers[j].surname :
        j \in { j \in 1..Len(store.drivers) :
                  \E i \in 1..Len(store.results) :
                      /\ store.results[i].raceId = drivers_call.race_id
                      /\ store.results[i].driverId = store.drivers[j].driverId } }

Place(n) == CHOOSE p \in 1..Len(Alphabetical) : Alphabetical[p] = n

\* C24: with results and drivers loaded, the list of a race holds the full
\* name of every competitor that has a result row in the race and a drivers
\* row, and nothing else, each once and in ascending order; two competitors
\* with one surname and two given names are two entries.
C24_DriverList ==
    (drivers_call.called /\ store.dir /\ {"results", "drivers"} \subseteq store.files) =>
        LET drivers == drivers_call.out.value
        IN  /\ drivers_call.out.raised = ""
            /\ { drivers[k] : k \in 1..Len(drivers) } = Entrants
            /\ \A i, j \in 1..Len(drivers) :
                   i < j => Place(drivers[i]) < Place(drivers[j])

\* both Schumachers raced, and the results list Mick before Michael
C24_Witness ==
    /\ drivers_call.called /\ drivers_call.out.raised = ""
    /\ drivers_call.out.value = <<"Michael Schumacher", "Mick Schumacher">>
    /\ Len(store.results) >= 2
    /\ store.results[1].driverId = 2

\* C27: a name picked from the list of a race whose races row exists has a
\* result row in that race, and when the team of the matched row is in
\* constructors the reconstruction returns a fact for that name.
C27_RoundTrip ==
    (/\ StoryCalled /\ drivers_call.called
     /\ story_call.race_id = drivers_call.race_id
     /\ story_call.driver_fullname \in Listed
     /\ \E k \in 1..Len(store.races) : store.races[k].raceId = story_call.race_id) =>
        /\ OwnRows # {}
        /\ TeamNames(Matched.constructorId) # {} =>
               /\ IsFact(StoryOut)
               /\ StoryOut.value.driver = story_call.driver_fullname

C27_Witness ==
    /\ StoryCalled /\ drivers_call.called
    /\ story_call.race_id = drivers_call.race_id
    /\ Len(drivers_call.out.value) >= 2
    /\ story_call.driver_fullname = "Mick Schumacher"
    /\ story_call.driver_fullname \in Listed
    /\ IsFact(StoryOut)
    /\ StoryOut.value.driver = "Mick Schumacher"

-----------------------------------------------------------------------------
(* Properties of the driver list *)

\* C30: for an entry of DRIVER_LIST the last word of the name is the surname
\* of a row of DRIVER_DATA, so that with two rows or more a scan of a listed
\* driver does not end in the empty result.
C30_ListedIsRanked ==
    (Called /\ Len(driver_data) >= 2) =>
        /\ InPopulation(rank_call.target, driver_data)
        /\ Out # Returned(<<>>)

====
